---- MODULE Spec2Model ----
(***************************************************************************)
(* Model of complexity.py: the iterable classifier (extract_iterable), the *)
(* loop-tree builder (LoopNode, LoopTreeVisitor), the serializer           *)
(* (loop_to_dict) and the evaluator (compute_complexity), together with    *)
(* the driver that chains them.                                            *)
(*                                                                         *)
(* Python strings produced by the evaluator are modelled as sequences of   *)
(* tokens ("1", "?", "len(n)", " + ", "*", "(", ")"): two such strings are *)
(* equal exactly when their token sequences are equal.                     *)
(***************************************************************************)
EXTENDS Integers, Sequences, FiniteSets, TLC

VARIABLES
    iter_node,        \* extract_iterable: the argument of the call under study
    iter_pc,          \* extract_iterable: "call" before it ran, "return" after
    iter_result,      \* extract_iterable: the returned tag ("" before the call)
    tree,             \* driver: the parsed ast.Module (line 202)
    pc,               \* driver: position in lines 202-225
    nodes,            \* heap of LoopNode objects, a node's id is its index
    visitor,          \* the LoopTreeVisitor object: [root, loop_stack] (ids)
    work,             \* call stack of the traversal: pending visit(stmt) calls
                      \* and pending returns into visit_For / visit_While
    tree_json,        \* driver: loop_to_dict(visitor.root) (line 220)
    time_complexity,  \* driver: compute_complexity(visitor.root) (line 225)
    visits,           \* number of visit(tree) calls made on the current visitor
    outputs           \* history: what each completed run of the driver produced

vars == <<iter_node, iter_pc, iter_result, tree, pc, nodes, visitor, work,
          tree_json, time_complexity, visits, outputs>>

classifier_vars == <<iter_node, iter_pc, iter_result>>

pipeline_vars == <<tree, pc, nodes, visitor, work, tree_json, time_complexity,
                   visits, outputs>>

(***************************************************************************)
(* Bounds of the model.                                                    *)
(***************************************************************************)
MaxArgs == 3      \* longest positional argument list of a call
MaxNodes == 3     \* most statements of the parsed module
MaxRerunNodes == 2  \* most statements of a module that is analysed again
MaxRuns == 2      \* most runs of the driver over the same syntax tree

(***************************************************************************)
(* Syntax trees: the expressions of the ast module that the code tells     *)
(* apart.  "Attribute" stands for every expression kind the code sends to  *)
(* its fallback (attribute access, subscript, arithmetic, ...).            *)
(***************************************************************************)
Constant == [k |-> "Constant"]
List == [k |-> "List"]
Attribute == [k |-> "Attribute"]
Name(id) == [k |-> "Name", id |-> id]
Call(func, args) == [k |-> "Call", func |-> func, args |-> args]

SeqUpTo(S, n) == UNION {[1..m -> S] : m \in 0..n}

\* the arguments a call to len is tried with
LenArgLists == {<<>>, <<Name("x")>>, <<Constant>>, <<Name("x"), Name("y")>>,
                <<Constant, Name("x")>>}

\* the expressions tried in an argument position of the iteration source
ArgExprs == {Constant, List, Name("n"), Attribute}
            \cup {Call(Name("len"), a) : a \in LenArgLists}

\* the callees tried: range, len, another function, a callee that is no Name
Callees == {Name("range"), Name("len"), Name("f"), Attribute}

IterExprs == {Constant, List, Name("n"), Attribute}
             \cup {Call(f, a) : f \in Callees, a \in SeqUpTo(ArgExprs, MaxArgs)}

(***************************************************************************)
(* 1. extract_iterable                                                     *)
(***************************************************************************)
IsLiteralOrContainer(e) == e.k \in {"Constant", "List", "Tuple", "Set", "Dict"}

LenOf(id) == "len(" \o id \o ")"

\* lines 49-56: the tag of a nonconstant argument of range
range_arg(arg) ==
    IF arg.k = "Name" THEN LenOf(arg.id)
    ELSE IF /\ arg.k = "Call"
            /\ arg.func.k = "Name"
            /\ arg.func.id = "len"
            /\ arg.args # <<>>
            /\ arg.args[1].k = "Name"
         THEN LenOf(arg.args[1].id)
    ELSE "len(other)"

RECURSIVE range_scan_last(_, _)
\* a scan that keeps going and answers for the last nonconstant argument
range_scan_last(args, i) ==
    IF i > Len(args) THEN "len(other)"
    ELSE IF /\ args[i].k # "Constant"
            /\ \A j \in (i + 1)..Len(args) : args[j].k = "Constant"
         THEN range_arg(args[i])
    ELSE range_scan_last(args, i + 1)

RECURSIVE range_scan(_, _)
\* lines 47-57: the loop over the arguments of range, from argument i on
range_scan(args, i) ==
    IF i > Len(args) THEN "len(other)"
    ELSE IF args[i].k # "Constant" THEN range_arg(args[i])
    ELSE range_scan(args, i + 1)

\* lines 59-62: the iteration source is a call to len
len_call(args) ==
    IF args # <<>> /\ args[1].k = "Name" THEN LenOf(args[1].id)
    ELSE "len(other)"

extract_iterable(e) ==
    IF IsLiteralOrContainer(e) THEN "c"
    ELSE IF e.k = "Call" THEN
        IF e.func.k = "Name" THEN
            IF e.func.id = "range" THEN
                IF \A i \in DOMAIN e.args : e.args[i].k = "Constant" THEN "c"
                ELSE range_scan(e.args, 1)
            ELSE IF e.func.id = "len" THEN len_call(e.args)
            ELSE "len(other)"
        ELSE "len(other)"
    ELSE IF e.k = "Name" THEN LenOf(e.id)
    ELSE "len(other)"

(***************************************************************************)
(* Syntax trees: statements.  A statement is a For, a While or an If (the  *)
(* If stands for every compound statement that is no loop: generic_visit   *)
(* walks its statement lists in field order).  Simple statements hold no   *)
(* statement and are left out of the bodies.                               *)
(***************************************************************************)
NoExpr == [k |-> "None"]

Stmt(type, iter, body, orelse) ==
    [type |-> type, iter |-> iter, body |-> body, orelse |-> orelse]

\* the statement headers tried: for _ in [...], for _ in range(1, n), while, if
Headers == {<<"For", List>>,
            <<"For", Call(Name("range"), <<Constant, Name("n")>>)>>,
            <<"While", NoExpr>>,
            <<"If", NoExpr>>}

\* the statements and the statement lists made of exactly n statements
SyntaxOfSize[n \in Nat] ==
    LET stmts == UNION {{Stmt(h[1], h[2], b, e) :
                            h \in Headers,
                            b \in SyntaxOfSize[k].blocks,
                            e \in SyntaxOfSize[n - 1 - k].blocks} :
                        k \in 0..(n - 1)}
        StmtsOf(k) == IF k = n THEN stmts ELSE SyntaxOfSize[k].stmts
        blocks == IF n = 0 THEN {<<>>}
                  ELSE UNION {{<<t>> \o f : t \in StmtsOf(k),
                                            f \in SyntaxOfSize[n - k].blocks} :
                              k \in 1..n}
    IN  [stmts |-> stmts, blocks |-> blocks]

BlocksOfSize(n) == SyntaxOfSize[n].blocks

Module(body) == Stmt("Module", NoExpr, body, <<>>)

ModulesUpTo(size) == {Module(b) : b \in UNION {BlocksOfSize(n) : n \in 0..size}}

(***************************************************************************)
(* 2. LoopNode, loop_to_dict                                               *)
(***************************************************************************)
\* LoopNode.__init__; Python's None is "None"
LoopNode(node, loop_type, iterable) ==
    [node |-> node, loop_type |-> loop_type, iterable |-> iterable,
     children |-> <<>>]

RECURSIVE loop_to_dict(_, _)
loop_to_dict(heap, id) ==
    LET n == heap[id]
        kids == [i \in DOMAIN n.children |-> loop_to_dict(heap, n.children[i])]
    IN  IF n.loop_type = "None"
        THEN [node |-> "Global Root", children |-> kids]
        ELSE [node |-> n.loop_type, iterable |-> n.iterable, children |-> kids]

(***************************************************************************)
(* 3. compute_complexity                                                   *)
(***************************************************************************)
One == <<"1">>
Unknown == <<"?">>

RECURSIVE JoinPlus(_)
\* " + ".join(costs)
JoinPlus(costs) ==
    IF costs = <<>> THEN <<>>
    ELSE IF Len(costs) = 1 THEN costs[1]
    ELSE costs[1] \o <<" + ">> \o JoinPlus(Tail(costs))

\* f"{left}*({inner})"
Times(left, inner) == left \o <<"*", "(">> \o inner \o <<")">>

NotOne(c) == c # One

\* a Root that keeps the "1" costs in a sum that has other terms
root_cost_keep_ones(costs) ==
    LET non_ones == SelectSeq(costs, NotOne)
    IN  IF non_ones # <<>> THEN JoinPlus(costs) ELSE One

\* lines 165-169, on the costs of the children
root_cost(costs) ==
    LET non_ones == SelectSeq(costs, NotOne)
    IN  IF non_ones # <<>> THEN JoinPlus(non_ones) ELSE One

\* line 174 and line 184, on the costs of the children
inner_cost(costs) == IF costs # <<>> THEN JoinPlus(costs) ELSE One

\* a For node that takes the tag "c" itself as its factor
for_cost_raw_factor(iterable, costs) ==
    LET factor_expr == <<iterable>>
        inner == inner_cost(costs)
    IN  IF inner = One THEN factor_expr
        ELSE IF factor_expr = One THEN inner
        ELSE Times(factor_expr, inner)

\* lines 172-181
for_cost(iterable, costs) ==
    LET factor_expr == IF iterable = "c" THEN One ELSE <<iterable>>
        inner == inner_cost(costs)
    IN  IF inner = One THEN factor_expr
        ELSE IF factor_expr = One THEN inner
        ELSE Times(factor_expr, inner)

\* lines 184-185
while_cost(costs) ==
    LET inner == inner_cost(costs)
    IN  IF inner = One THEN Unknown ELSE Times(Unknown, inner)

RECURSIVE compute_complexity(_, _)
compute_complexity(heap, id) ==
    LET node == heap[id]
        costs == [i \in DOMAIN node.children |->
                      compute_complexity(heap, node.children[i])]
    IN  IF node.loop_type = "None" THEN root_cost(costs)
        ELSE IF node.loop_type = "For" THEN for_cost(node.iterable, costs)
        ELSE IF node.loop_type = "While" THEN while_cost(costs)
        ELSE One

(***************************************************************************)
(* 2. LoopTreeVisitor.  The recursion of NodeVisitor.visit is the explicit *)
(* call stack `work`: a frame is a pending visit(stmt) call or the rest of *)
(* visit_For / visit_While that runs once the body and the else clause of  *)
(* stmt have been visited.                                                 *)
(***************************************************************************)
VisitFrame(stmt) == [op |-> "visit", stmt |-> stmt]
ReturnFrame(stmt) == [op |-> "return", stmt |-> stmt]

\* for stmt in stmts: self.visit(stmt)
VisitAll(stmts) == [i \in DOMAIN stmts |-> VisitFrame(stmts[i])]

Top(stack) == stack[Len(stack)]
Pop(stack) == SubSeq(stack, 1, Len(stack) - 1)

Visiting(type) ==
    /\ pc = "visiting"
    /\ work # <<>>
    /\ Head(work).op = "visit"
    /\ Head(work).stmt.type = type

Returning(type) ==
    /\ pc = "visiting"
    /\ work # <<>>
    /\ Head(work).op = "return"
    /\ Head(work).stmt.type = type

\* a visitor that hangs every new node under the root
EnterLoop_under_root(stmt, loop_type, iterable) ==
    LET new == Len(nodes) + 1
        parent == visitor.root
    IN  /\ nodes' = Append(
                [nodes EXCEPT ![parent].children = Append(@, new)],
                LoopNode(stmt, loop_type, iterable))
        /\ visitor' = [visitor EXCEPT !.loop_stack = Append(@, new)]
        /\ work' = VisitAll(stmt.body) \o VisitAll(stmt.orelse)
                   \o <<ReturnFrame(stmt)>> \o Tail(work)

\* lines 121-127 and 131-137: the new node becomes the last child of the top of
\* the stack and is pushed; the body, then the else clause, are visited next
EnterLoop(stmt, loop_type, iterable) ==
    LET new == Len(nodes) + 1
        parent == Top(visitor.loop_stack)
    IN  /\ nodes' = Append(
                [nodes EXCEPT ![parent].children = Append(@, new)],
                LoopNode(stmt, loop_type, iterable))
        /\ visitor' = [visitor EXCEPT !.loop_stack = Append(@, new)]
        /\ work' = VisitAll(stmt.body) \o VisitAll(stmt.orelse)
                   \o <<ReturnFrame(stmt)>> \o Tail(work)

\* lines 128 and 138: self.loop_stack.pop()
LeaveLoop ==
    /\ visitor' = [visitor EXCEPT !.loop_stack = Pop(@)]
    /\ work' = Tail(work)
    /\ UNCHANGED nodes

\* a visitor class whose instances share one root node
LoopTreeVisitor_init_shared_root ==
    /\ pc = "parsed"
    /\ nodes' = IF nodes = <<>>
                THEN <<LoopNode("Global Root", "None", "None")>>
                ELSE nodes
    /\ visitor' = [root |-> 1, loop_stack |-> <<1>>]
    /\ visits' = 0
    /\ pc' = "constructed"
    /\ UNCHANGED <<classifier_vars, tree, work, tree_json, time_complexity, outputs>>

\* line 203: visitor = LoopTreeVisitor()
LoopTreeVisitor_init ==
    /\ pc = "parsed"
    /\ nodes' = Append(nodes, LoopNode("Global Root", "None", "None"))
    /\ visitor' = [root |-> Len(nodes) + 1, loop_stack |-> <<Len(nodes) + 1>>]
    /\ visits' = 0
    /\ pc' = "constructed"
    /\ UNCHANGED <<classifier_vars, tree, work, tree_json, time_complexity, outputs>>

\* line 204: visitor.visit(tree)
visit ==
    /\ pc = "constructed"
    /\ work' = <<VisitFrame(tree)>>
    /\ visits' = visits + 1
    /\ pc' = "visiting"
    /\ UNCHANGED <<classifier_vars, tree, nodes, visitor, tree_json, time_complexity, outputs>>

visit_For ==
    /\ Visiting("For")
    /\ EnterLoop(Head(work).stmt, "For", extract_iterable(Head(work).stmt.iter))
    /\ UNCHANGED <<classifier_vars, tree, pc, tree_json, time_complexity, visits, outputs>>

\* a visit_For that returns without popping the stack
visit_For_return_no_pop ==
    /\ Returning("For")
    /\ work' = Tail(work)
    /\ UNCHANGED <<classifier_vars, tree, pc, nodes, visitor, tree_json,
                   time_complexity, visits, outputs>>

visit_For_return ==
    /\ Returning("For")
    /\ LeaveLoop
    /\ UNCHANGED <<classifier_vars, tree, pc, tree_json, time_complexity, visits, outputs>>

visit_While ==
    /\ Visiting("While")
    /\ EnterLoop(Head(work).stmt, "While", "None")
    /\ UNCHANGED <<classifier_vars, tree, pc, tree_json, time_complexity, visits, outputs>>

visit_While_return ==
    /\ Returning("While")
    /\ LeaveLoop
    /\ UNCHANGED <<classifier_vars, tree, pc, tree_json, time_complexity, visits, outputs>>

\* lines 140-141: NodeVisitor.generic_visit visits the statements of every
\* statement list of the node, in field order
generic_visit ==
    /\ pc = "visiting"
    /\ work # <<>>
    /\ Head(work).op = "visit"
    /\ Head(work).stmt.type \notin {"For", "While"}
    /\ work' = VisitAll(Head(work).stmt.body) \o VisitAll(Head(work).stmt.orelse)
               \o Tail(work)
    /\ UNCHANGED <<classifier_vars, tree, pc, nodes, visitor, tree_json, time_complexity, visits,
                   outputs>>

\* line 220: loop_to_dict(visitor.root), once visitor.visit(tree) has returned
serialize ==
    /\ pc = "visiting"
    /\ work = <<>>
    /\ tree_json' = loop_to_dict(nodes, visitor.root)
    /\ pc' = "serialized"
    /\ UNCHANGED <<classifier_vars, tree, nodes, visitor, work, time_complexity, visits, outputs>>

\* line 225: time_complexity = compute_complexity(visitor.root)
evaluate ==
    /\ pc = "serialized"
    /\ time_complexity' = compute_complexity(nodes, visitor.root)
    /\ outputs' = Append(outputs, [tree_json |-> tree_json,
                                   time_complexity |-> time_complexity',
                                   visits |-> visits])
    /\ pc' = "done"
    /\ UNCHANGED <<classifier_vars, tree, nodes, visitor, work, tree_json, visits>>

(***************************************************************************)
(* The pipeline: the driver of lines 202-225, run once over a syntax tree. *)
(***************************************************************************)
ClassifierIdle ==
    /\ iter_node = NoExpr
    /\ iter_pc = "idle"
    /\ iter_result = ""

Init ==
    /\ ClassifierIdle
    /\ tree \in ModulesUpTo(MaxNodes)
    /\ pc = "parsed"
    /\ nodes = <<>>
    /\ visitor = [root |-> 0, loop_stack |-> <<>>]
    /\ work = <<>>
    /\ tree_json = [node |-> "None", children |-> <<>>]
    /\ time_complexity = <<>>
    /\ visits = 0
    /\ outputs = <<>>

Next ==
    \/ LoopTreeVisitor_init
    \/ visit
    \/ visit_For
    \/ visit_For_return
    \/ visit_While
    \/ visit_While_return
    \/ generic_visit
    \/ serialize
    \/ evaluate

Spec == Init /\ [][Next]_vars

(***************************************************************************)
(* The pipeline run again over the same syntax tree, up to MaxRuns times:  *)
(* the caller either builds a new LoopTreeVisitor (back to line 203) or    *)
(* calls visit on the visitor it already has (back to line 204).           *)
(***************************************************************************)
again_new_visitor ==
    /\ pc = "done"
    /\ Len(outputs) < MaxRuns
    /\ pc' = "parsed"
    /\ UNCHANGED <<classifier_vars, tree, nodes, visitor, work, tree_json,
                   time_complexity, visits, outputs>>

again_same_visitor ==
    /\ pc = "done"
    /\ Len(outputs) < MaxRuns
    /\ pc' = "constructed"
    /\ UNCHANGED <<classifier_vars, tree, nodes, visitor, work, tree_json,
                   time_complexity, visits, outputs>>

InitRerun ==
    /\ ClassifierIdle
    /\ tree \in ModulesUpTo(MaxRerunNodes)
    /\ pc = "parsed"
    /\ nodes = <<>>
    /\ visitor = [root |-> 0, loop_stack |-> <<>>]
    /\ work = <<>>
    /\ tree_json = [node |-> "None", children |-> <<>>]
    /\ time_complexity = <<>>
    /\ visits = 0
    /\ outputs = <<>>

NextRerun ==
    \/ LoopTreeVisitor_init
    \/ visit
    \/ visit_For
    \/ visit_For_return
    \/ visit_While
    \/ visit_While_return
    \/ generic_visit
    \/ serialize
    \/ evaluate
    \/ again_new_visitor
    \/ again_same_visitor

SpecRerun == InitRerun /\ [][NextRerun]_vars

(***************************************************************************)
(* The classifier alone: extract_iterable applied to one expression.       *)
(***************************************************************************)
PipelineIdle ==
    /\ tree = Module(<<>>)
    /\ pc = "idle"
    /\ nodes = <<>>
    /\ visitor = [root |-> 0, loop_stack |-> <<>>]
    /\ work = <<>>
    /\ tree_json = [node |-> "None", children |-> <<>>]
    /\ time_complexity = <<>>
    /\ visits = 0
    /\ outputs = <<>>

InitClassifier ==
    /\ PipelineIdle
    /\ iter_node \in IterExprs
    /\ iter_pc = "call"
    /\ iter_result = ""

call_extract_iterable ==
    /\ iter_pc = "call"
    /\ iter_result' = extract_iterable(iter_node)
    /\ iter_pc' = "return"
    /\ UNCHANGED <<iter_node, pipeline_vars>>

NextClassifier == call_extract_iterable

SpecClassifier == InitClassifier /\ [][NextClassifier]_vars

(***************************************************************************)
(* Properties of extract_iterable, checked under SpecClassifier.           *)
(***************************************************************************)
IsRangeCall(e) == e.k = "Call" /\ e.func.k = "Name" /\ e.func.id = "range"
IsLenCall(e) == e.k = "Call" /\ e.func.k = "Name" /\ e.func.id = "len"
AllConstant(args) == \A i \in DOMAIN args : args[i].k = "Constant"

\* the position of the first argument that is no literal
FirstNonConstant(args) ==
    CHOOSE p \in DOMAIN args :
        /\ args[p].k # "Constant"
        /\ \A j \in 1..(p - 1) : args[j].k = "Constant"

HasSoleNameArg(call) == Len(call.args) = 1 /\ call.args[1].k = "Name"

ExpectedLenTag(call) ==
    IF HasSoleNameArg(call) THEN LenOf(call.args[1].id) ELSE "len(other)"

\* C5: a call to len, as the iteration source or as the first argument of
\* range that is no literal, is len(name) only when its sole argument is a
\* bare identifier, and len(other) in every other case.
C5_LenSoleArgument ==
    iter_pc = "return" =>
        /\ IsLenCall(iter_node) => iter_result = ExpectedLenTag(iter_node)
        /\ (/\ IsRangeCall(iter_node)
            /\ ~AllConstant(iter_node.args)
            /\ IsLenCall(iter_node.args[FirstNonConstant(iter_node.args)]))
               => iter_result =
                      ExpectedLenTag(iter_node.args[FirstNonConstant(iter_node.args)])

(***************************************************************************)
(* Properties of compute_complexity, checked under Spec on the tree that   *)
(* the visitor built.                                                      *)
(***************************************************************************)
\* the costs compute_complexity returns for the children of node id
ChildCosts(id) ==
    [i \in DOMAIN nodes[id].children |->
         compute_complexity(nodes, nodes[id].children[i])]

RECURSIVE DropOnes(_)
\* the costs that are not "1", in order
DropOnes(costs) ==
    IF costs = <<>> THEN <<>>
    ELSE IF costs[Len(costs)] = One THEN DropOnes(SubSeq(costs, 1, Len(costs) - 1))
    ELSE Append(DropOnes(SubSeq(costs, 1, Len(costs) - 1)), costs[Len(costs)])

RECURSIVE SumOf(_)
\* the sum of one or more costs, in order
SumOf(costs) ==
    IF Len(costs) = 1 THEN costs[1]
    ELSE SumOf(SubSeq(costs, 1, Len(costs) - 1)) \o <<" + ">> \o costs[Len(costs)]

\* the sum the Root makes of its children's costs
RootStyleSum(costs) ==
    IF DropOnes(costs) = <<>> THEN One ELSE SumOf(DropOnes(costs))

\* the factor of a For node
FactorOf(id) == IF nodes[id].iterable = "c" THEN One ELSE <<nodes[id].iterable>>

\* C1: a For node costs its factor when the Root-style sum of its children's
\* costs is "1", that sum when its factor is "1", and factor*(sum) otherwise.
C1_ForUsesRootStyleSum ==
    pc = "done" =>
        \A id \in DOMAIN nodes :
            nodes[id].loop_type = "For" =>
                LET inner == RootStyleSum(ChildCosts(id))
                    factor == FactorOf(id)
                IN  compute_complexity(nodes, id) =
                        IF inner = One THEN factor
                        ELSE IF factor = One THEN inner
                        ELSE factor \o <<"*", "(">> \o inner \o <<")">>

\* C2: the Root costs "1" when it has no child or every child costs "1", and
\* otherwise the sum, in child order, of the child costs that are not "1".
C2_RootSum ==
    pc = "done" => time_complexity = RootStyleSum(ChildCosts(visitor.root))

\* the Root summed a child that costs "1" and a child that does not
C2_Witness ==
    /\ pc = "done"
    /\ \E i, j \in DOMAIN nodes[visitor.root].children :
           /\ ChildCosts(visitor.root)[i] = One
           /\ ChildCosts(visitor.root)[j] # One
    /\ time_complexity # One

\* C3: a While node costs "?" when the Root-style sum of its children's costs
\* is "1", and ?*(sum) otherwise.
C3_WhileUsesRootStyleSum ==
    pc = "done" =>
        \A id \in DOMAIN nodes :
            nodes[id].loop_type = "While" =>
                LET inner == RootStyleSum(ChildCosts(id))
                IN  compute_complexity(nodes, id) =
                        IF inner = One THEN Unknown
                        ELSE Unknown \o <<"*", "(">> \o inner \o <<")">>

\* every For node of the tree is constant-classified and has no child
ForNodesConstantLeaves ==
    \A id \in DOMAIN nodes :
        nodes[id].loop_type = "For" =>
            nodes[id].iterable = "c" /\ nodes[id].children = <<>>

\* C8 as stated: a Root whose every descendant For node is constant-classified
\* and loop-free costs "1".
C8_AsStated ==
    (pc = "done" /\ ForNodesConstantLeaves) => time_complexity = One

\* C8: a Root whose every descendant is a For node that is constant-classified
\* and loop-free costs "1".
C8_ConstantForLeavesCostOne ==
    (/\ pc = "done"
     /\ ForNodesConstantLeaves
     /\ \A id \in DOMAIN nodes : nodes[id].loop_type # "While")
        => time_complexity = One

\* the Root of two or more constant For loops was evaluated
C8_Witness ==
    /\ pc = "done"
    /\ ForNodesConstantLeaves
    /\ \A id \in DOMAIN nodes : nodes[id].loop_type # "While"
    /\ Len(nodes[visitor.root].children) >= 2
    /\ time_complexity = One

LenTerms == {LenOf(id) : id \in {"n", "x", "y", "other"}}
IsAtom(t) == t = "?" \/ t \in LenTerms

RECURSIVE ParseSum(_, _)
RECURSIVE ParseTerm(_, _)
\* the position after the term that starts at position i of e, 0 if none does:
\* a term is an atom, or an atom times a parenthesized sum
ParseTerm(e, i) ==
    IF i > Len(e) \/ ~IsAtom(e[i]) THEN 0
    ELSE IF i + 2 <= Len(e) /\ e[i + 1] = "*" THEN
        IF e[i + 2] # "(" THEN 0
        ELSE LET j == ParseSum(e, i + 3)
             IN  IF j = 0 \/ j > Len(e) \/ e[j] # ")" THEN 0 ELSE j + 1
    ELSE i + 1

\* the position after the longest sum of terms that starts at position i of e
ParseSum(e, i) ==
    LET j == ParseTerm(e, i)
    IN  IF j = 0 THEN 0
        ELSE IF j <= Len(e) /\ e[j] = " + " THEN ParseSum(e, j + 1)
        ELSE j

\* "1", or a sum of products over len(...) terms and "?"
WellFormed(e) == e = One \/ ParseSum(e, 1) = Len(e) + 1

\* C9: every node of every loop tree gets an expression, and it is "1" or a
\* sum/product over len(...) terms and "?" whose products have a parenthesized
\* right operand.
C9_WellFormedExpression ==
    pc = "done" =>
        /\ time_complexity = compute_complexity(nodes, visitor.root)
        /\ \A id \in DOMAIN nodes : WellFormed(compute_complexity(nodes, id))

(***************************************************************************)
(* Properties of LoopTreeVisitor, checked under Spec.                      *)
(***************************************************************************)
IsLoop(stmt) == stmt.type \in {"For", "While"}

RECURSIVE LoopsIn(_)
\* the loop trees of a statement list: one tree per loop that no loop of the
\* list encloses, in source order, each with the loops directly inside its
\* body and else clause as children
LoopsIn(stmts) ==
    IF stmts = <<>> THEN <<>>
    ELSE LET s == stmts[1]
             inside == LoopsIn(s.body \o s.orelse)
             here == IF s.type = "For"
                     THEN <<[node |-> "For",
                             iterable |-> extract_iterable(s.iter),
                             children |-> inside]>>
                     ELSE IF s.type = "While"
                     THEN <<[node |-> "While", iterable |-> "None",
                             children |-> inside]>>
                     ELSE inside
         IN  here \o LoopsIn(Tail(stmts))

Max(a, b) == IF a >= b THEN a ELSE b

RECURSIVE NestingDepth(_)
\* the largest number of loops nested in one another in a statement list
NestingDepth(stmts) ==
    IF stmts = <<>> THEN 0
    ELSE LET s == stmts[1]
             below == NestingDepth(s.body \o s.orelse)
         IN  Max(IF IsLoop(s) THEN 1 + below ELSE below,
                 NestingDepth(Tail(stmts)))

RECURSIVE CountLoops(_)
CountLoops(stmts) ==
    IF stmts = <<>> THEN 0
    ELSE (IF IsLoop(stmts[1]) THEN 1 ELSE 0)
         + CountLoops(stmts[1].body \o stmts[1].orelse)
         + CountLoops(Tail(stmts))

RECURSIVE Height(_, _)
\* the number of levels below node id
Height(heap, id) ==
    IF heap[id].children = <<>> THEN 0
    ELSE LET hs == {Height(heap, heap[id].children[i]) :
                        i \in DOMAIN heap[id].children}
         IN  1 + CHOOSE h \in hs : \A g \in hs : g <= h

\* visitor.visit(tree) has returned
Built == (pc = "visiting" /\ work = <<>>) \/ pc \in {"serialized", "done"}

\* C6: every loop node hangs under the node of the innermost loop enclosing
\* its statement (the Root if none), whatever non-loop statements lie between
\* and also for loops of an else clause; children are in source order; the
\* depth of the tree is the deepest loop nesting; only loops become nodes.
C6_TreeMirrorsLoopNesting ==
    Built =>
        /\ loop_to_dict(nodes, visitor.root) =
               [node |-> "Global Root", children |-> LoopsIn(tree.body)]
        /\ Height(nodes, visitor.root) = NestingDepth(tree.body)
        /\ Len(nodes) = 1 + CountLoops(tree.body)
        /\ \A id \in DOMAIN nodes :
               id # visitor.root =>
                   /\ IsLoop(nodes[id].node)
                   /\ nodes[id].loop_type = nodes[id].node.type

\* the tree of: a for loop whose body holds an if that holds a while loop
C6_Witness ==
    /\ Built
    /\ tree.body = <<Stmt("For", List,
                          <<Stmt("If", NoExpr,
                                 <<Stmt("While", NoExpr, <<>>, <<>>)>>, <<>>)>>,
                          <<>>)>>
    /\ nodes[visitor.root].children = <<2>>
    /\ nodes[2].children = <<3>>
    /\ nodes[3].loop_type = "While"

IsReturn(frame) == frame.op = "return"

\* the loops whose body or else clause is being traversed, innermost first
LoopsInProgress == SelectSeq(work, IsReturn)

\* C10: once the visitor exists, the stack is the Root followed by the nodes
\* of the loops in progress, innermost on top, each the last child of the one
\* below it; after the traversal the stack is the Root alone.
C10_StackDiscipline ==
    pc # "parsed" =>
        LET stack == visitor.loop_stack
            depth == Len(stack)
        IN  /\ depth = 1 + Len(LoopsInProgress)
            /\ stack[1] = visitor.root
            /\ nodes[visitor.root].loop_type = "None"
            /\ \A i \in 2..depth :
                   LET parent == nodes[stack[i - 1]]
                       stmt == LoopsInProgress[depth - i + 1].stmt
                   IN  /\ nodes[stack[i]].loop_type = stmt.type
                       /\ nodes[stack[i]].node = stmt
                       /\ parent.children # <<>>
                       /\ stack[i] = parent.children[Len(parent.children)]
            /\ Built => stack = <<visitor.root>>

\* a statement is about to be visited inside two nested loops
C10_Witness ==
    /\ pc = "visiting"
    /\ Len(visitor.loop_stack) = 3
    /\ work # <<>>
    /\ Head(work).op = "visit"
    /\ IsLoop(Head(work).stmt)

(***************************************************************************)
(* Properties of repeated runs, checked under SpecRerun.                   *)
(***************************************************************************)
SameOutput(a, b) ==
    a.tree_json = b.tree_json /\ a.time_complexity = b.time_complexity

====
